---- MODULE Spec2Model ----
(***************************************************************************)
(* getAttributesFromScimPayload                                            *)
(* (packages/features/ee/dsync/lib/getAttributesFromScimPayload.ts)        *)
(*                                                                         *)
(* One call of the function is a run of the state machine below: the       *)
(* event-kind test, the forEach over raw.schemas, one step per field that  *)
(* collectAttributes visits, the diagnostic dump and the return.           *)
(*                                                                         *)
(* JavaScript values are records [t, s, items]: t is the runtime type, s   *)
(* the text of a primitive, items the own enumerable properties in         *)
(* Object.entries order (index keys for arrays and strings).               *)
(***************************************************************************)
EXTENDS Integers, Sequences, FiniteSets, TLC

VARIABLES event, directoryId, scimUserAttributes, log,
          console, pc, schemaIndex, entryIndex, calls, previous

vars == <<event, directoryId, scimUserAttributes, log,
          console, pc, schemaIndex, entryIndex, calls, previous>>

(* ------------------------------ bounds -------------------------------- *)

MaxSchemas == 2

MaxCalls == 2

(* ------------------------- JavaScript values --------------------------- *)

Prim(type, text) == [t |-> type, s |-> text, items |-> <<>>]

Str(text) == Prim("string", text)

Num(text) == Prim("number", text)

Bool(text) == Prim("boolean", text)

Null == Prim("null", "")

Undefined == Prim("undefined", "")

InheritedFunction == Prim("function", "")

Field(name, value) == [k |-> name, val |-> value]

IndexKey(n) == <<"0", "1", "2", "3">>[n]

Arr(elements) ==
  [t |-> "array", s |-> "",
   items |-> [n \in 1..Len(elements) |-> Field(IndexKey(n), elements[n])]]

Obj(fields) == [t |-> "object", s |-> "", items |-> fields]

Chars(text) ==
  CASE text = "" -> <<>>
    [] text = "AB" -> <<Str("A"), Str("B")>>
    [] OTHER -> <<Str(text)>>

ObjectPrototypeNames ==
  {"constructor", "toString", "valueOf", "hasOwnProperty", "isPrototypeOf",
   "propertyIsEnumerable", "toLocaleString", "__proto__"}

IsNullish(value) == value.t \in {"null", "undefined"}

Truthy(value) ==
  CASE value.t = "string" -> value.s # ""
    [] value.t = "number" -> value.s \notin {"0", "NaN"}
    [] value.t = "boolean" -> value.s = "true"
    [] value.t \in {"null", "undefined"} -> FALSE
    [] OTHER -> TRUE

OwnKeys(object) == {object.items[n].k : n \in 1..Len(object.items)}

OwnValue(object, name) ==
  object.items[CHOOSE n \in 1..Len(object.items) : object.items[n].k = name].val

(* object[name] on a plain object: own property, else Object.prototype *)
Get(object, name) ==
  IF name \in OwnKeys(object) THEN OwnValue(object, name)
  ELSE IF name \in ObjectPrototypeNames THEN InheritedFunction
  ELSE Undefined

(* Object.entries(value) for a non-nullish value *)
Entries(value) ==
  CASE value.t \in {"object", "array"} -> value.items
    [] value.t = "string" ->
         [n \in 1..Len(Chars(value.s)) |-> Field(IndexKey(n), Chars(value.s)[n])]
    [] OTHER -> <<>>

(* ---------------------------- the program ------------------------------ *)

coreSchemaUrn == "urn:ietf:params:scim:schemas:core:2.0:User"

coreUserAttributesToIgnore ==
  {"userName", "name", "displayName", "emails", "active", "externalId", "id",
   "groups", "meta", "locale", "password", "phoneNumbers", "photos",
   "profileUrl", "timezone", "title", "addresses", "entitlements", "ims",
   "roles", "x509Certificates"}

RetainedAttributes == scimUserAttributes

EmptyAttributes == <<>>

(* the configured list of directories whose result is dumped to the console *)
DIRECTORY_IDS_TO_LOG == {"dir-1"}

IsSupportedEventAny(kind) == TRUE

IsSupportedEvent(kind) == kind = "user.created" \/ kind = "user.updated"

raw == event.data.raw

(* raw.schemas.forEach(...) throws a TypeError unless raw.schemas is an array *)
SchemasThrows ==
  \/ IsNullish(raw)
  \/ Get(raw, "schemas").t # "array"

schemas == Get(raw, "schemas").items

schema == schemas[schemaIndex].val

IsCoreSchema(value) == value.t = "string" /\ value.s = coreSchemaUrn

(* const { schemas: _schemas, ...namespaceData } = raw *)
CoreNamespaceData(document) ==
  SelectSeq(document.items, LAMBDA f : f.k # "schemas")

IsNamespaceNameString(value) == value.t = "string"

IsNamespaceDataMissingNever(value) == FALSE

IsNamespaceDataMissing(value) == ~Truthy(value)

(* the (data, ignoreList) pair handed to collectAttributes for a schema entry *)
data ==
  IF IsCoreSchema(schema) THEN CoreNamespaceData(raw)
  ELSE Entries(Get(raw, schema.s))

ignoreList == IF IsCoreSchema(schema) THEN coreUserAttributesToIgnore ELSE {}

customAttributeName == data[entryIndex].k

value == data[entryIndex].val

IsIgnoredNever(list, name) == FALSE

IsIgnored(list, name) == name \in list

IsFalsy(v) == ~Truthy(v)

(* scimUserAttributes[name] is a property read on a plain {} object *)
Lookup(attributes, name) ==
  IF name \in DOMAIN attributes THEN attributes[name]
  ELSE IF name \in ObjectPrototypeNames THEN InheritedFunction
  ELSE Undefined

AlreadyExistsNever(attributes, name) == FALSE

AlreadyExists(attributes, name) == Truthy(Lookup(attributes, name))

IsSupportedShapeAnyArray(v) == v.t = "string" \/ v.t = "array"

IsSupportedShapeWithNumber(v) ==
  \/ v.t \in {"string", "number"}
  \/ /\ v.t = "array"
     /\ \A n \in 1..Len(v.items) : v.items[n].val.t = "string"

IsSupportedShape(v) ==
  \/ v.t = "string"
  \/ /\ v.t = "array"
     /\ \A n \in 1..Len(v.items) : v.items[n].val.t = "string"

Store(attributes, name, v) ==
  [k \in DOMAIN attributes \cup {name} |-> IF k = name THEN v ELSE attributes[k]]

ShouldLogAlways(id) == TRUE

ShouldLog(id) == id \in DIRECTORY_IDS_TO_LOG

LogError(kind, text) == Append(log, [level |-> "error", kind |-> kind, arg |-> text])

LogWarn(kind, text) == Append(log, [level |-> "warn", kind |-> kind, arg |-> text])

(* safeStringify(namespaceName) of a non-string schema entry *)
Stringify(v) ==
  CASE v.t \in {"number", "boolean"} -> v.s
    [] v.t = "null" -> "null"
    [] OTHER -> v.t

Unchanged == UNCHANGED <<event, directoryId, calls, previous>>

(* lines 82-87 *)
UnsupportedEvent ==
  /\ pc = "start"
  /\ ~IsSupportedEvent(event.event)
  /\ scimUserAttributes' = EmptyAttributes
  /\ log' = LogError("Unsupported event", event.event)
  /\ pc' = "done"
  /\ UNCHANGED <<console, schemaIndex, entryIndex>>
  /\ Unchanged

(* lines 82-90, raw.schemas is not an array *)
SchemasTypeError ==
  /\ pc = "start"
  /\ IsSupportedEvent(event.event)
  /\ SchemasThrows
  /\ scimUserAttributes' = EmptyAttributes
  /\ pc' = "thrown"
  /\ UNCHANGED <<log, console, schemaIndex, entryIndex>>
  /\ Unchanged

(* lines 82-90 *)
BeginForEach ==
  /\ pc = "start"
  /\ IsSupportedEvent(event.event)
  /\ ~SchemasThrows
  /\ scimUserAttributes' = EmptyAttributes
  /\ schemaIndex' = 1
  /\ pc' = "schema"
  /\ UNCHANGED <<log, console, entryIndex>>
  /\ Unchanged

AtSchema == pc = "schema" /\ schemaIndex <= Len(schemas)

(* lines 91-97 *)
CoreSchema ==
  /\ AtSchema
  /\ IsCoreSchema(schema)
  /\ entryIndex' = 1
  /\ pc' = "collect"
  /\ UNCHANGED <<scimUserAttributes, log, console, schemaIndex>>
  /\ Unchanged

(* lines 98-105 *)
NamespaceNotString ==
  /\ AtSchema
  /\ ~IsCoreSchema(schema)
  /\ ~IsNamespaceNameString(schema)
  /\ log' = LogError("Namespace name is not a string", Stringify(schema))
  /\ schemaIndex' = schemaIndex + 1
  /\ UNCHANGED <<scimUserAttributes, console, pc, entryIndex>>
  /\ Unchanged

(* lines 106-110 *)
NamespaceDataNull ==
  /\ AtSchema
  /\ ~IsCoreSchema(schema)
  /\ IsNamespaceNameString(schema)
  /\ IsNamespaceDataMissing(Get(raw, schema.s))
  /\ log' = LogWarn("Namespace data is null", schema.s)
  /\ schemaIndex' = schemaIndex + 1
  /\ UNCHANGED <<scimUserAttributes, console, pc, entryIndex>>
  /\ Unchanged

(* lines 106-112 *)
CustomNamespace ==
  /\ AtSchema
  /\ ~IsCoreSchema(schema)
  /\ IsNamespaceNameString(schema)
  /\ ~IsNamespaceDataMissing(Get(raw, schema.s))
  /\ entryIndex' = 1
  /\ pc' = "collect"
  /\ UNCHANGED <<scimUserAttributes, log, console, schemaIndex>>
  /\ Unchanged

AtEntry == pc = "collect" /\ entryIndex <= Len(data)

NextEntry ==
  /\ entryIndex' = entryIndex + 1
  /\ UNCHANGED <<console, pc, schemaIndex>>
  /\ Unchanged

(* lines 130-132 *)
IgnoredAttribute ==
  /\ AtEntry
  /\ IsIgnored(ignoreList, customAttributeName)
  /\ UNCHANGED <<scimUserAttributes, log>>
  /\ NextEntry

(* lines 133-139 *)
FalsyAttribute ==
  /\ AtEntry
  /\ ~IsIgnored(ignoreList, customAttributeName)
  /\ IsFalsy(value)
  /\ log' = LogWarn("Custom attribute is null", customAttributeName)
  /\ UNCHANGED scimUserAttributes
  /\ NextEntry

(* lines 140-146 *)
ExistingAttribute ==
  /\ AtEntry
  /\ ~IsIgnored(ignoreList, customAttributeName)
  /\ ~IsFalsy(value)
  /\ AlreadyExists(scimUserAttributes, customAttributeName)
  /\ log' = LogWarn("Custom attribute already exists", customAttributeName)
  /\ UNCHANGED scimUserAttributes
  /\ NextEntry

(* lines 149-154, the condition holds *)
StoreAttribute ==
  /\ AtEntry
  /\ ~IsIgnored(ignoreList, customAttributeName)
  /\ ~IsFalsy(value)
  /\ ~AlreadyExists(scimUserAttributes, customAttributeName)
  /\ IsSupportedShape(value)
  /\ scimUserAttributes' = Store(scimUserAttributes, customAttributeName, value)
  /\ UNCHANGED log
  /\ NextEntry

(* lines 149-154, the condition fails *)
UnsupportedShape ==
  /\ AtEntry
  /\ ~IsIgnored(ignoreList, customAttributeName)
  /\ ~IsFalsy(value)
  /\ ~AlreadyExists(scimUserAttributes, customAttributeName)
  /\ ~IsSupportedShape(value)
  /\ UNCHANGED <<scimUserAttributes, log>>
  /\ NextEntry

(* lines 129-155: Object.entries(data).forEach has visited every entry *)
EndCollect ==
  /\ pc = "collect"
  /\ entryIndex > Len(data)
  /\ schemaIndex' = schemaIndex + 1
  /\ pc' = "schema"
  /\ UNCHANGED <<scimUserAttributes, log, console, entryIndex>>
  /\ Unchanged

collectAttributes ==
  \/ IgnoredAttribute
  \/ FalsyAttribute
  \/ ExistingAttribute
  \/ StoreAttribute
  \/ UnsupportedShape
  \/ EndCollect

AfterForEach == pc = "schema" /\ schemaIndex > Len(schemas)

(* lines 115-120, shouldLog *)
DumpAndReturn ==
  /\ AfterForEach
  /\ ShouldLog(directoryId)
  /\ console' = Append(console, [label |-> "Collected Attributes:",
                                 attributes |-> scimUserAttributes])
  /\ pc' = "done"
  /\ UNCHANGED <<scimUserAttributes, log, schemaIndex, entryIndex>>
  /\ Unchanged

(* lines 115-120, not shouldLog *)
Return ==
  /\ AfterForEach
  /\ ~ShouldLog(directoryId)
  /\ pc' = "done"
  /\ UNCHANGED <<scimUserAttributes, log, console, schemaIndex, entryIndex>>
  /\ Unchanged

DirectoryIds == {"dir-1", "dir-2"}

(* the caller keeps what the call returned and calls again with the same event *)
CallAgain ==
  /\ pc = "done"
  /\ calls < MaxCalls
  /\ calls' = calls + 1
  /\ previous' = [attributes |-> scimUserAttributes, log |-> log,
                  console |-> console, directoryId |-> directoryId,
                  event |-> event]
  /\ directoryId' \in DirectoryIds
  /\ log' = <<>>
  /\ console' = <<>>
  /\ pc' = "start"
  /\ schemaIndex' = 0
  /\ entryIndex' = 0
  /\ UNCHANGED <<event, scimUserAttributes>>

getAttributesFromScimPayload ==
  \/ UnsupportedEvent
  \/ SchemasTypeError
  \/ BeginForEach
  \/ CoreSchema
  \/ NamespaceNotString
  \/ NamespaceDataNull
  \/ CustomNamespace
  \/ collectAttributes
  \/ DumpAndReturn
  \/ Return

(* ------------------------------ inputs --------------------------------- *)

Absent == Prim("absent", "")

Compact(fields) == SelectSeq(fields, LAMBDA f : f.val.t # "absent")

Document(sc, ti, ni, se, te) ==
  Obj(Compact(<<Field("schemas", sc), Field("title", ti), Field("nickname", ni),
                Field("segment", se), Field("territory", te)>>))

SchemaEntries ==
  {Str(coreSchemaUrn), Str("segment"), Str("territory"), Str("constructor"),
   Num("42")}

SchemasValues ==
  {Absent, Str("AB")}
    \cup {Arr(q) : q \in UNION {[1..n -> SchemaEntries] : n \in 0..MaxSchemas}}

FieldValues ==
  {Str("A"), Str("B"), Str(""), Num("42"), Num("0"), Bool("true"),
   Bool("false"), Null, Obj(<<>>), Arr(<<>>), Arr(<<Str("A"), Str("B")>>),
   Arr(<<Str("A"), Num("42")>>)}

TitleValues == {Absent, Str("A")}

NicknameValues == {Absent, Str("A"), Str("")}

SegmentValues ==
  {Absent, Null, Str("AB"), Num("42"), Arr(<<Str("A"), Str("B")>>)}
    \cup {Obj(<<Field("nickname", v)>>) : v \in FieldValues}
    \cup {Obj(<<Field("title", Str("B"))>>),
          Obj(<<Field("constructor", Str("A"))>>),
          Obj(<<Field("constructor", Num("42"))>>)}

TerritoryValues ==
  {Absent, Obj(<<Field("nickname", Str("B")), Field("title", Str("A"))>>)}

Documents ==
  {Undefined}
    \cup {Document(sc, ti, ni, se, te) :
            sc \in SchemasValues, ti \in TitleValues, ni \in NicknameValues,
            se \in SegmentValues, te \in TerritoryValues}

EventKinds == {"user.created", "user.updated", "user.deleted"}

NoPrevious ==
  [attributes |-> <<>>, log |-> <<>>, console |-> <<>>, directoryId |-> "",
   event |-> [event |-> "", data |-> [raw |-> Undefined]]]

InitCall ==
  /\ directoryId \in DirectoryIds
  /\ scimUserAttributes = <<>>
  /\ log = <<>>
  /\ console = <<>>
  /\ pc = "start"
  /\ schemaIndex = 0
  /\ entryIndex = 0
  /\ calls = 1
  /\ previous = NoPrevious

Init ==
  /\ event \in [event : EventKinds, data : [raw : Documents]]
  /\ InitCall

(* a smaller set of events for the runs that call the function twice *)
CallDocuments ==
  {Undefined}
    \cup {Document(sc, Str("A"), ni, se, te) :
            sc \in SchemasValues, ni \in {Absent, Str("")},
            se \in {Absent, Null, Str("AB"), Obj(<<Field("nickname", Str("A"))>>),
                    Obj(<<Field("nickname", Num("0"))>>),
                    Obj(<<Field("constructor", Str("A"))>>)},
            te \in TerritoryValues}

InitCalls ==
  /\ event \in [event : EventKinds, data : [raw : CallDocuments]]
  /\ InitCall

Next == getAttributesFromScimPayload

Spec == Init /\ [][Next]_vars

NextCalls == getAttributesFromScimPayload \/ CallAgain

SpecCalls == InitCalls /\ [][NextCalls]_vars

(* ----------------------- vocabulary of the claims ---------------------- *)

Supported == event.event \in {"user.created", "user.updated"}

Running == Supported /\ pc \in {"schema", "collect", "done"}

IsCoreEntry(entry) == entry.t = "string" /\ entry.s = coreSchemaUrn

StringOrStringArray(v) ==
  \/ v.t = "string"
  \/ v.t = "array" /\ \A n \in DOMAIN v.items : v.items[n].val.t = "string"

UnsupportedValueShape(v) ==
  \/ v.t \in {"number", "boolean", "object"}
  \/ v.t = "array" /\ \E n \in DOMAIN v.items : v.items[n].val.t # "string"

NonEmpty(v) ==
  /\ v.t \notin {"null", "undefined"}
  /\ ~(v.t = "string" /\ v.s = "")
  /\ ~(v.t = "number" /\ v.s \in {"0", "NaN"})
  /\ ~(v.t = "boolean" /\ v.s = "false")

Tag(fields, n, core) ==
  [m \in DOMAIN fields |->
     [k |-> fields[m].k, val |-> fields[m].val, ns |-> n, core |-> core]]

(* the fields that the n-th entry of raw.schemas offers, in their order *)
OccurrencesOf(n) ==
  LET entry == schemas[n].val
  IN  IF IsCoreEntry(entry)
        THEN Tag(SelectSeq(raw.items, LAMBDA f : f.k # "schemas"), n, TRUE)
      ELSE IF entry.t # "string" \/ ~NonEmpty(Get(raw, entry.s))
        THEN <<>>
      ELSE Tag(Entries(Get(raw, entry.s)), n, FALSE)

RECURSIVE OccurrencesUpTo(_)
OccurrencesUpTo(n) ==
  IF n = 0 THEN <<>> ELSE OccurrencesUpTo(n - 1) \o OccurrencesOf(n)

AllOccurrences == OccurrencesUpTo(Len(schemas))

(* the occurrences the extraction has gone through so far *)
Processed ==
  CASE pc = "collect" ->
         OccurrencesUpTo(schemaIndex - 1)
           \o SubSeq(OccurrencesOf(schemaIndex), 1, entryIndex - 1)
    [] pc = "schema" -> OccurrencesUpTo(schemaIndex - 1)
    [] OTHER -> AllOccurrences

Acceptable(o) ==
  /\ ~(o.core /\ o.k \in coreUserAttributesToIgnore)
  /\ NonEmpty(o.val)
  /\ StringOrStringArray(o.val)

Positions(occ, name, P(_)) == {n \in DOMAIN occ : occ[n].k = name /\ P(occ[n])}

First(positions) == CHOOSE n \in positions : \A m \in positions : n <= m

Names(occ) == {occ[n].k : n \in DOMAIN occ}

HasValid(o) ==
  /\ ~(o.core /\ o.k \in coreUserAttributesToIgnore)
  /\ StringOrStringArray(o.val)

LogEntry(level, kind, text) == [level |-> level, kind |-> kind, arg |-> text]

SegmentOnly(fieldValue) ==
  Document(Arr(<<Str("segment")>>), Absent, Absent,
           Obj(<<Field("nickname", fieldValue)>>), Absent)

(* ------------------------------- claims -------------------------------- *)

(* C1: for an event kind other than "user.created"/"user.updated" the call
   returns the empty map whatever the payload, logs exactly one error naming
   the kind, processes no namespace and emits no diagnostic dump. *)
C1_UnsupportedEventShortCircuit ==
  ~Supported =>
    /\ pc \in {"start", "done"}
    /\ scimUserAttributes = <<>>
    /\ console = <<>>
    /\ schemaIndex = 0 /\ entryIndex = 0
    /\ log = IF pc = "done"
               THEN <<LogEntry("error", "Unsupported event", event.event)>>
               ELSE <<>>

C1_Witness ==
  /\ pc = "done"
  /\ event.event = "user.deleted"
  /\ raw = SegmentOnly(Str("A"))
  /\ directoryId \in DIRECTORY_IDS_TO_LOG
  /\ Len(log) = 1

(* C2 as stated: when two namespaces of raw.schemas both declare a field of
   the same name with a string or string-array value (a core field of the
   ignore list not counted as declared), the returned map holds the value of
   the earliest of them. *)
C2_FirstDeclaredValidWins ==
  (pc = "done" /\ Supported) =>
    \A name \in Names(AllOccurrences) \ ObjectPrototypeNames :
      LET declared == Positions(AllOccurrences, name, HasValid)
      IN  Cardinality({schemas[AllOccurrences[n].ns].val : n \in declared}) >= 2 =>
            /\ name \in DOMAIN scimUserAttributes
            /\ scimUserAttributes[name] = AllOccurrences[First(declared)].val

(* C2 amended: at every point of the extraction each key of the map holds the
   value of the first occurrence gone through so far that is non-empty, a
   string or string-array, and not an ignore-listed core field; so a written
   key is never changed or removed by a later field. *)
C2_FirstWriteWins ==
  Running =>
    \A name \in DOMAIN scimUserAttributes :
      LET accepted == Positions(Processed, name, Acceptable)
      IN  /\ accepted # {}
          /\ scimUserAttributes[name] = Processed[First(accepted)].val

C2_Witness ==
  /\ pc = "done"
  /\ Supported
  /\ \E name \in DOMAIN scimUserAttributes :
       LET accepted == Positions(AllOccurrences, name, Acceptable)
       IN  \E n \in accepted :
             /\ n > First(accepted)
             /\ AllOccurrences[n].ns # AllOccurrences[First(accepted)].ns
             /\ AllOccurrences[n].val # scimUserAttributes[name]

(* C3: every value held by the attribute map, at every point, is a non-empty
   string or an array whose elements are all strings. *)
C3_TypeFiltering ==
  \A name \in DOMAIN scimUserAttributes :
    LET v == scimUserAttributes[name]
    IN  \/ v.t = "string" /\ v.s # ""
        \/ v.t = "array" /\ \A n \in DOMAIN v.items : v.items[n].val.t = "string"

C3_Witness ==
  /\ pc = "done"
  /\ Supported
  /\ scimUserAttributes # <<>>
  /\ \E n \in DOMAIN AllOccurrences :
       /\ AllOccurrences[n].val.t = "array"
       /\ UnsupportedValueShape(AllOccurrences[n].val)
       /\ AllOccurrences[n].k \in DOMAIN scimUserAttributes

(* C4: while the core namespace is being collected, no key of the ignore list
   and not the key "schemas" is written to (or changed in) the map. *)
C4_IgnoreListEnforced ==
  [][(pc = "collect" /\ IsCoreEntry(schema)) =>
       \A name \in coreUserAttributesToIgnore \cup {"schemas"} :
         IF name \in DOMAIN scimUserAttributes
           THEN /\ name \in DOMAIN scimUserAttributes'
                /\ scimUserAttributes'[name] = scimUserAttributes[name]
           ELSE name \notin DOMAIN scimUserAttributes']_vars

C4_Witness ==
  /\ pc = "done"
  /\ Supported
  /\ Get(raw, "title") = Str("A")
  /\ Get(raw, "nickname") = Str("A")
  /\ schemas = Arr(<<Str(coreSchemaUrn)>>).items
  /\ DOMAIN scimUserAttributes = {"nickname"}

(* C5: the call never ends in an exception, whatever the shape of
   event.data.raw. *)
C5_NoException == pc # "thrown"

(* C6: a schema entry that is not a string logs one error, a string entry
   (not the core URN) whose raw[entry] is falsy logs one warning; either way
   the map is unchanged and the forEach goes on with the next entry; a call
   that returns has gone through every entry. *)
C6_MalformedNamespaceSkipped ==
  /\ [][(pc = "schema" /\ schemaIndex <= Len(schemas) /\ ~IsCoreEntry(schema)
           /\ (schema.t # "string" \/ ~NonEmpty(Get(raw, schema.s)))) =>
          /\ scimUserAttributes' = scimUserAttributes
          /\ console' = console
          /\ pc' = "schema"
          /\ schemaIndex' = schemaIndex + 1
          /\ log' = Append(log,
                      IF schema.t # "string"
                        THEN LogEntry("error", "Namespace name is not a string",
                                      Stringify(schema))
                        ELSE LogEntry("warn", "Namespace data is null",
                                      schema.s))]_vars
  /\ []((pc = "done" /\ Supported) => schemaIndex = Len(schemas) + 1)

C6_Witness ==
  /\ pc = "done"
  /\ Supported
  /\ Len(schemas) = 2
  /\ log = <<LogEntry("warn", "Namespace data is null", schemas[1].val.s)>>
  /\ scimUserAttributes # <<>>

(* C7: a second call with the same event and the same directoryId returns
   the same map as the first; each call starts its forEach from the empty
   map, and the event is the one the first call was given. *)
C7_Idempotence ==
  /\ (pc = "schema" /\ schemaIndex = 1) => scimUserAttributes = <<>>
  /\ (calls >= 2 /\ pc = "done" /\ directoryId = previous.directoryId) =>
       /\ scimUserAttributes = previous.attributes
       /\ event = previous.event

C7_Witness ==
  /\ calls = 2
  /\ pc = "done"
  /\ directoryId = previous.directoryId
  /\ scimUserAttributes # <<>>
  /\ log # <<>>

(* C8: a second call with the same event and any directoryId returns the same
   map and logs the same messages; the dump is written once, at the return of
   a supported event, with the final map, exactly when directoryId is in the
   allow-list. *)
C8_DirectoryIdOnlyForDiagnostics ==
  /\ (calls >= 2 /\ pc = "done") =>
       /\ scimUserAttributes = previous.attributes
       /\ log = previous.log
  /\ console =
       IF pc = "done" /\ Supported /\ directoryId \in DIRECTORY_IDS_TO_LOG
         THEN <<[label |-> "Collected Attributes:",
                 attributes |-> scimUserAttributes]>>
         ELSE <<>>

C8_Witness ==
  /\ calls = 2
  /\ pc = "done"
  /\ directoryId # previous.directoryId
  /\ console # previous.console
  /\ scimUserAttributes # <<>>
  /\ log # <<>>

(* C9 as stated: a field whose value is a number, a boolean, a plain object
   or an array with a non-string element records nothing and logs nothing
   (read here for names that Object.prototype does not define). *)
C9_UnsupportedShapeSilent ==
  [][(pc = "collect" /\ entryIndex <= Len(data) /\ UnsupportedValueShape(value)
        /\ customAttributeName \notin ObjectPrototypeNames) =>
       /\ scimUserAttributes' = scimUserAttributes
       /\ log' = log]_vars

(* C9 amended: such a field records nothing; it logs nothing when its value
   is truthy and its name does not already read as a value in the map, and
   otherwise at most the one warning of the falsy or already-exists check. *)
C9_UnsupportedShapeSkipped ==
  [][(pc = "collect" /\ entryIndex <= Len(data) /\ UnsupportedValueShape(value)) =>
       /\ scimUserAttributes' = scimUserAttributes
       /\ (NonEmpty(value)
             /\ customAttributeName \notin DOMAIN scimUserAttributes
             /\ customAttributeName \notin ObjectPrototypeNames)
            => log' = log
       /\ \/ log' = log
          \/ /\ ~NonEmpty(value)
             /\ log' = Append(log, LogEntry("warn", "Custom attribute is null",
                                            customAttributeName))
          \/ /\ NonEmpty(value)
             /\ log' = Append(log, LogEntry("warn",
                                            "Custom attribute already exists",
                                            customAttributeName))]_vars

C9_Witness ==
  /\ pc = "done"
  /\ event.event = "user.created"
  /\ raw = SegmentOnly(Num("42"))
  /\ scimUserAttributes = <<>>
  /\ log = <<>>

(* C10: for a supported event the returned map has a key exactly when some
   occurrence of it, in processing order, is acceptable (not an ignore-listed
   core field, truthy, a string or string-array), and holds the value of the
   first acceptable occurrence. *)
C10_ResultCharacterisation ==
  (pc = "done" /\ Supported) =>
    /\ DOMAIN scimUserAttributes =
         {name \in Names(AllOccurrences) :
            Positions(AllOccurrences, name, Acceptable) # {}}
    /\ \A name \in DOMAIN scimUserAttributes :
         scimUserAttributes[name] =
           AllOccurrences[First(Positions(AllOccurrences, name, Acceptable))].val

====
